---- MODULE Spec2Model ----
(***************************************************************************)
(* Model of liweitianux/cexess: calc_pei.py (power excess index) and       *)
(* calc_coolfunc.py (XSPEC cooling-function profile).                      *)
(*                                                                         *)
(* Numbers.  Quantities that the code log-transforms (frequencies, powers, *)
(* R500) are kept as  [s, e] :  s * 10^(e / LogUnit),  s in {-1, 0, 1}.    *)
(* Values in log space are IEEE-like extended rationals                    *)
(* [k, n, d] with k in {"fin", "nan", "pinf", "ninf"}: numpy does not      *)
(* raise on log10(0), log10(-1) or 0/0, it yields -inf / nan and goes on.  *)
(* Rounding of binary floating point is not modelled: finite arithmetic    *)
(* is exact.                                                               *)
(***************************************************************************)
EXTENDS Integers, Sequences, FiniteSets, TLC

\* ------------------------------------------------------------ bounds
\* longest PSD table (rows of psd.txt)
MaxLen == 3
\* largest interp_np handed to calc_pei
MaxNp == 4

\* grid of the [s, e] representation: e counts 1/LogUnit decades
LogUnit == 2 * 2

\* ------------------------------------------------------------ arithmetic
Abs(a) == IF a < 0 THEN -a ELSE a

RECURSIVE Gcd(_, _)
Gcd(a, b) == IF b = 0 THEN a ELSE Gcd(b, a % b)

\* the finite value n/d (d # 0), in lowest terms with d > 0
Fin(n, d) ==
    LET g == Gcd(Abs(n), Abs(d))
        s == IF d < 0 THEN -1 ELSE 1
    IN  [k |-> "fin", n |-> s * (Abs(n) \div g) * (IF n < 0 THEN -1 ELSE 1),
         d |-> Abs(d) \div g]

NaN == [k |-> "nan", n |-> 0, d |-> 1]
PInf == [k |-> "pinf", n |-> 0, d |-> 1]
NInf == [k |-> "ninf", n |-> 0, d |-> 1]

IsFin(a) == a.k = "fin"
Sign(a) == CASE a.k = "pinf" -> 1
             [] a.k = "ninf" -> -1
             [] a.k = "fin" -> (IF a.n > 0 THEN 1 ELSE IF a.n < 0 THEN -1 ELSE 0)
             [] OTHER -> 0
InfOf(s) == IF s > 0 THEN PInf ELSE NInf

XNeg(a) == CASE a.k = "fin" -> Fin(-a.n, a.d)
             [] a.k = "pinf" -> NInf
             [] a.k = "ninf" -> PInf
             [] OTHER -> NaN

XAdd(a, b) ==
    CASE a.k = "nan" \/ b.k = "nan" -> NaN
      [] IsFin(a) /\ IsFin(b) ->
            LET g == Gcd(a.d, b.d)
            IN  Fin(a.n * (b.d \div g) + b.n * (a.d \div g), (a.d \div g) * b.d)
      [] IsFin(a) -> b
      [] IsFin(b) -> a
      [] OTHER -> IF a.k = b.k THEN a ELSE NaN

XSub(a, b) == XAdd(a, XNeg(b))

XMul(a, b) ==
    CASE a.k = "nan" \/ b.k = "nan" -> NaN
      [] IsFin(a) /\ IsFin(b) ->
            LET g1 == Gcd(Abs(a.n), b.d)
                g2 == Gcd(Abs(b.n), a.d)
            IN  Fin((a.n \div g1) * (b.n \div g2), (a.d \div g2) * (b.d \div g1))
      [] OTHER -> IF Sign(a) = 0 \/ Sign(b) = 0 THEN NaN ELSE InfOf(Sign(a) * Sign(b))

\* float64 division: x/0 is +-inf, 0/0 and inf/inf are nan, nothing raises
XDiv(a, b) ==
    CASE a.k = "nan" \/ b.k = "nan" -> NaN
      [] IsFin(a) /\ IsFin(b) ->
            IF b.n = 0
            THEN (IF a.n = 0 THEN NaN ELSE InfOf(a.n))
            ELSE XMul(a, Fin(b.d, b.n))
      [] IsFin(a) -> Fin(0, 1)
      [] IsFin(b) -> InfOf(Sign(a) * (IF b.n < 0 THEN -1 ELSE 1))
      [] OTHER -> NaN

\* comparisons are false as soon as a nan is involved
XLt(a, b) ==
    CASE a.k = "nan" \/ b.k = "nan" -> FALSE
      [] IsFin(a) /\ IsFin(b) -> a.n * b.d < b.n * a.d
      [] a.k = "ninf" -> b.k # "ninf"
      [] b.k = "pinf" -> a.k # "pinf"
      [] OTHER -> FALSE
XEq(a, b) == a.k # "nan" /\ b.k # "nan" /\ a = b
XLe(a, b) == XLt(a, b) \/ XEq(a, b)

Zero == Fin(0, 1)
One == Fin(1, 1)

\* ------------------------------------------------------------ state
VARIABLES
    pc,          \* where the running script stands
    why,         \* the exception that ended the run, "" while none
    data,        \* calc_pei: (freqs, psd1d)
    r500,        \* calc_pei: R500 in pixels
    interp_np,   \* calc_pei: number of interpolated points
    calc,        \* calc_pei: what the call handed back
    args_json,   \* calc_pei.py main: --json, "none" when not given
    glob_list,   \* calc_pei.py main: glob.glob("../*_INFO.json")
    info_files,  \* calc_pei.py main: the metadata files on disk
    psd_file,    \* calc_pei.py main: the table in args.infile
    info_json,   \* calc_pei.py main: the metadata path chosen
    outfile,     \* calc_pei.py main: args.outfile on disk
    png,         \* calc_pei.py main: args.png on disk
    json_text,   \* metadata loader: the text of the *_INFO.json file
    info,        \* metadata loader: what json.loads handed back
    tprofile,    \* macro script: the lines of the temperature profile
    cf_file,     \* macro script: the lines of the output profile on disk
    tcl_vars,    \* macro script: the Tcl variables radius and temp_val
    line_no,     \* macro script: lines of tprofile read so far
    config,      \* calc_coolfunc.py main: the ConfigObj read from the file
    config_data, \* calc_coolfunc.py main: the dictionary for the template
    script_file, \* calc_coolfunc.py main: config["xspec_script"] on disk
    xspec_calls, \* calc_coolfunc.py main: the argv of each process launched
    returncode   \* calc_coolfunc.py main: exit status of the process

calcVars == <<data, r500, interp_np, calc>>
mainVars == <<args_json, glob_list, info_files, psd_file, info_json, outfile, png>>
infoVars == <<json_text, info>>
xcmVars == <<tprofile, cf_file, tcl_vars, line_no>>
coolVars == <<config, config_data, script_file, xspec_calls, returncode>>
notPei == <<infoVars, xcmVars, coolVars>>
vars == <<pc, why, calcVars, mainVars, infoVars, xcmVars, coolVars>>

\* ------------------------------------------------------------ linear-space numbers
\* round(LogUnit * log10(0.350)) and round(LogUnit * log10(0.035))
E0350 == -2
E0035 == -6

Lin(s, e) == [s |-> s, e |-> IF s = 0 THEN 0 ELSE e]
LMul(a, b) == Lin(a.s * b.s, a.e + b.e)
\* 1.0 / a, for a # 0
LRecip(a) == Lin(a.s, -a.e)

\* numpy.log10: -inf at 0 and nan below 0, with a warning and no exception
Log10(v) == IF v.s = 1 THEN Fin(v.e, LogUnit) ELSE IF v.s = 0 THEN NInf ELSE NaN
Log10All(arr) == [i \in 1..Len(arr) |-> Log10(arr[i])]

\* arr[mask]
RECURSIVE Masked(_, _)
Masked(arr, mask) ==
    IF arr = <<>> \/ mask = <<>> THEN <<>>
    ELSE (IF Head(mask) THEN <<Head(arr)>> ELSE <<>>) \o Masked(Tail(arr), Tail(mask))

\* mask = (freqs > 0.0)
FreqMask_ge(freqs) == [i \in 1..Len(freqs) |-> freqs[i].s >= 0]
FreqMask(freqs) == [i \in 1..Len(freqs) |-> freqs[i].s = 1]

\* numpy.linspace(start, stop, num), endpoint included
linspace_odd(start, stop, num) ==
    LET m == IF num % 2 = 0 THEN num + 1 ELSE num
    IN  IF m = 1 THEN <<start>>
        ELSE [i \in 1..m |->
                 IF i = m THEN stop
                 ELSE XAdd(start, XMul(Fin(i - 1, 1), XDiv(XSub(stop, start), Fin(m - 1, 1))))]
linspace(start, stop, num) ==
    IF num = 1 THEN <<start>>
    ELSE LET step == XDiv(XSub(stop, start), Fin(num - 1, 1))
         IN  [i \in 1..num |->
                 IF i = num THEN stop ELSE XAdd(start, XMul(Fin(i - 1, 1), step))]

\* numpy.min / numpy.max over ys[lo..hi]: a nan anywhere gives nan
RECURSIVE MinRange(_, _, _), MaxRange(_, _, _)
MinRange(ys, lo, hi) ==
    IF lo = hi THEN ys[lo]
    ELSE LET mid == (lo + hi) \div 2
             a == MinRange(ys, lo, mid)
             b == MinRange(ys, mid + 1, hi)
         IN  IF a.k = "nan" \/ b.k = "nan" THEN NaN
             ELSE IF XLt(b, a) THEN b ELSE a
MaxRange(ys, lo, hi) ==
    IF lo = hi THEN ys[lo]
    ELSE LET mid == (lo + hi) \div 2
             a == MaxRange(ys, lo, mid)
             b == MaxRange(ys, mid + 1, hi)
         IN  IF a.k = "nan" \/ b.k = "nan" THEN NaN
             ELSE IF XLt(a, b) THEN b ELSE a
FoldMin(ys) == MinRange(ys, 1, Len(ys))
FoldMax(ys) == MaxRange(ys, 1, Len(ys))

InBounds_below(x, x_new) == \A i \in 1..Len(x_new) : ~XLt(x_new[i], x[1])
\* interp1d raises unless every x_new lies in [x[0], x[-1]] (bounds_error);
\* a nan compares false with everything and passes.  (interp1d also wants
\* two points for kind="linear"; later scipy releases take one, which
\* matters only when a single positive frequency is retained.)
InBounds(x, x_new) ==
    \A i \in 1..Len(x_new) : ~XLt(x_new[i], x[1]) /\ ~XLt(x[Len(x)], x_new[i])

\* numpy.interp at one point xv, x ascending, x[1] <= xv <= x[Len(x)]
InterpAt(x, y, xv) ==
    IF xv.k = "nan" THEN NaN
    ELSE LET n == Len(x)
             j == CHOOSE i \in 1..n :
                      /\ XLe(x[i], xv)
                      /\ \A h \in (i + 1)..n : ~XLe(x[h], xv)
         IN  IF j = n THEN y[n]
             ELSE IF XEq(xv, x[j]) THEN y[j]
             ELSE LET slope == XDiv(XSub(y[j + 1], y[j]), XSub(x[j + 1], x[j]))
                      fwd == XAdd(XMul(slope, XSub(xv, x[j])), y[j])
                      bwd == XAdd(XMul(slope, XSub(xv, x[j + 1])), y[j + 1])
                  IN  IF fwd.k # "nan" THEN fwd
                      ELSE IF bwd.k # "nan" THEN bwd
                      ELSE IF XEq(y[j], y[j + 1]) THEN y[j]
                      ELSE NaN

f_interp(x, y, x_new) == [i \in 1..Len(x_new) |-> InterpAt(x, y, x_new[i])]

\* sum over the intervals lo..hi of diff(x) * (y[1:] + y[:-1]) / 2.0
RECURSIVE TrapzRange(_, _, _, _)
TrapzRange(y, x, lo, hi) ==
    IF lo > hi THEN Zero
    ELSE IF lo = hi
    THEN XDiv(XMul(XSub(x[lo + 1], x[lo]), XAdd(y[lo + 1], y[lo])), Fin(2, 1))
    ELSE LET mid == (lo + hi) \div 2
         IN  XAdd(TrapzRange(y, x, lo, mid), TrapzRange(y, x, mid + 1, hi))

\* scipy.integrate.trapz(y, x)
trapz_no_half(y, x) == XMul(Fin(2, 1), TrapzRange(y, x, 1, Len(y) - 1))
trapz(y, x) == TrapzRange(y, x, 1, Len(y) - 1)

\* pei_value = area_below / area_total
pei_ratio_guarded(area_below, area_total) ==
    IF XEq(area_total, Zero) THEN Fin(1, 2) ELSE XDiv(area_below, area_total)
pei_ratio(area_below, area_total) == XDiv(area_below, area_total)

\* what calc_pei hands back when it raises
Raised(exc) ==
    [status |-> "raised", why |-> exc,
     area_total |-> NaN, area_below |-> NaN, pei_value |-> NaN,
     data_interp_log10 |-> <<>>, log_freqs |-> <<>>, log_psd |-> <<>>,
     log_window |-> <<>>]

calc_pei(dat, r, np) ==
    LET freqs == dat[1]
        psd1d == dat[2]
    IN  \* 1.0 / (0.350 * r500) with r500 = 0.0, a Python float
        IF r.s = 0 THEN Raised("ZeroDivisionError")
        ELSE
        LET pei_fmin == LRecip(LMul(Lin(1, E0350), r))
            pei_fmax == LRecip(LMul(Lin(1, E0035), r))
            mask == FreqMask(freqs)
            fm == Masked(freqs, mask)
            pm == Masked(psd1d, mask)
            x == Log10All(fm)
            y == Log10All(pm)
            pei_xmin == Log10(pei_fmin)
            pei_xmax == Log10(pei_fmax)
            x_interp == linspace(pei_xmin, pei_xmax, np)
        IN  IF Len(x) < 2 \/ ~InBounds(x, x_interp)
            THEN [Raised("ValueError") EXCEPT
                     !.log_freqs = fm, !.log_psd = pm,
                     !.log_window = <<pei_fmin, pei_fmax>>]
            ELSE
            LET y_interp == f_interp(x, y, x_interp)
                pei_ymin == FoldMin(y_interp)
                pei_ymax == FoldMax(y_interp)
                area_total == XMul(XSub(pei_xmax, pei_xmin), XSub(pei_ymax, pei_ymin))
                area_below ==
                    trapz([i \in 1..Len(y_interp) |-> XSub(y_interp[i], pei_ymin)],
                          x_interp)
            IN  [status |-> "returned", why |-> "",
                 area_total |-> area_total,
                 area_below |-> area_below,
                 pei_value |-> pei_ratio(area_below, area_total),
                 data_interp_log10 |->
                     [i \in 1..Len(x_interp) |-> <<x_interp[i], y_interp[i]>>],
                 log_freqs |-> fm, log_psd |-> pm,
                 log_window |-> <<pei_fmin, pei_fmax>>]

\* ------------------------------------------------------------ inputs
\* exponents of the sampled frequencies and powers, in 1/LogUnit decades
FreqExps == {-8, -6, -4, -2}
FreqVals == {Lin(-1, 0), Lin(0, 0)} \cup {Lin(1, e) : e \in FreqExps}
PsdVals == {Lin(-1, 0), Lin(0, 0), Lin(1, 0), Lin(1, 4)}
R500Vals == {Lin(-1, 8), Lin(0, 0), Lin(1, 8), Lin(1, 12)}

\* the value order of the frequencies (a PSD table lists them ascending)
LinLt(a, b) == IF a.s # b.s THEN a.s < b.s ELSE a.s * a.e < b.s * b.e

Ascending(fs) == \A i \in 1..(Len(fs) - 1) : LinLt(fs[i], fs[i + 1])

Tables ==
    UNION {{<<fs, ps>> : fs \in {f \in [1..n -> FreqVals] : Ascending(f)},
                         ps \in [1..n -> PsdVals]} : n \in 0..MaxLen}

NoCalc == Raised("not called")
NoR500 == [s |-> 0, e |-> 99]

\* the parts of the repository that a run does not touch
MainIdle ==
    /\ args_json = "none" /\ glob_list = <<>> /\ info_files = <<>>
    /\ psd_file = <<>> /\ info_json = "" /\ outfile = "" /\ png = ""
CalcIdle ==
    /\ data = <<<<>>, <<>>>> /\ r500 = NoR500 /\ interp_np = 0 /\ calc = NoCalc
InfoIdle == json_text = <<>> /\ info = <<>>
XcmIdle == tprofile = <<>> /\ cf_file = <<>> /\ tcl_vars = <<>> /\ line_no = 0
CoolIdle ==
    /\ config = <<>> /\ config_data = <<>> /\ script_file = <<>>
    /\ xspec_calls = <<>> /\ returncode = 0

\* ------------------------------------------------------------ calc_pei alone
InitCalc ==
    /\ pc = "call"
    /\ data \in Tables
    /\ r500 \in R500Vals
    /\ interp_np \in 1..MaxNp
    /\ calc = NoCalc
    /\ why = ""
    /\ MainIdle /\ InfoIdle /\ XcmIdle /\ CoolIdle

CallCalcPei ==
    /\ pc = "call"
    /\ calc' = calc_pei(data, r500, interp_np)
    /\ pc' = "done"
    /\ UNCHANGED <<why, data, r500, interp_np, mainVars>>
    /\ UNCHANGED notPei

NextCalc == CallCalcPei

SpecCalc == InitCalc /\ [][NextCalc]_vars

\* ------------------------------------------------------------ calc_pei.py main
\* def calc_pei(data, r500, interp_np=101)
DefaultInterpNp == 101

\* a metadata file: "absent", "malformed" (json.loads or get_r500 raises on
\* it), or the r500_pix that get_r500 reads from it
Absent == [kind |-> "absent", r500_pix |-> NoR500]
Malformed == [kind |-> "malformed", r500_pix |-> NoR500]
Info(r) == [kind |-> "ok", r500_pix |-> r]
InfoA == {Absent, Info(Lin(1, 8)), Info(Lin(-1, 8)), Info(Lin(0, 0))}
InfoB == {Absent, Malformed, Info(Lin(1, 8)), Info(Lin(1, 12))}

\* the powers of the tables main is run on
MainPsdVals == {Lin(1, 0), Lin(1, 4)}
MainTables == {t \in Tables : \A i \in 1..Len(t[2]) : t[2][i] \in MainPsdVals}

InitMain ==
    /\ pc = "choose_info"
    /\ why = ""
    /\ args_json \in {"none", "B"}
    /\ info_files \in [{"A", "B"} -> InfoA \cup InfoB]
    /\ info_files["A"] \in InfoA
    /\ info_files["B"] \in InfoB
    \* glob lists the files that exist and match ../*_INFO.json
    /\ glob_list = IF info_files["A"] = Absent THEN <<>> ELSE <<"A">>
    /\ psd_file \in MainTables
    /\ info_json = ""
    /\ outfile = "old"
    /\ png = "old"
    /\ data = <<<<>>, <<>>>>
    /\ r500 = NoR500
    /\ interp_np = DefaultInterpNp
    /\ calc = NoCalc
    /\ InfoIdle /\ XcmIdle /\ CoolIdle

Fail(exc) == pc' = "failed" /\ why' = exc

\* info_json = glob.glob(default_infojson)[0]; if args.json: info_json = args.json
ChooseInfoJson ==
    /\ pc = "choose_info"
    /\ IF glob_list = <<>>
       THEN Fail("IndexError") /\ UNCHANGED info_json
       ELSE /\ info_json' = IF args_json # "none" THEN args_json ELSE glob_list[1]
            /\ pc' = "load_info"
            /\ UNCHANGED why
    /\ UNCHANGED <<calcVars, args_json, glob_list, info_files, psd_file, outfile, png>>
    /\ UNCHANGED notPei

\* open(info_json).read() ... json.loads ... get_r500(info)
LoadInfo ==
    /\ pc = "load_info"
    /\ LET content == info_files[info_json]
       IN  IF content.kind = "absent" THEN Fail("FileNotFoundError") /\ UNCHANGED r500
           ELSE IF content.kind = "malformed" THEN Fail("ValueError") /\ UNCHANGED r500
           ELSE r500' = content.r500_pix /\ pc' = "load_psd" /\ UNCHANGED why
    /\ UNCHANGED <<data, interp_np, calc, mainVars>>
    /\ UNCHANGED notPei

\* psd_data = np.loadtxt(args.infile); freqs = psd_data[:, 0]; psd1d = psd_data[:, 1]
\* (loadtxt squeezes: a table of fewer than two rows is no 2-D array)
LoadPsd ==
    /\ pc = "load_psd"
    /\ IF Len(psd_file[1]) < 2
       THEN Fail("IndexError") /\ UNCHANGED data
       ELSE data' = psd_file /\ pc' = "calc" /\ UNCHANGED why
    /\ UNCHANGED <<r500, interp_np, calc, mainVars>>
    /\ UNCHANGED notPei

\* pei, data_interp_log10 = calc_pei(data=(freqs, psd1d), r500=r500_pix)
MainCalcPei ==
    /\ pc = "calc"
    /\ calc' = calc_pei(data, r500, DefaultInterpNp)
    /\ IF calc'.status = "raised" THEN Fail(calc'.why)
       ELSE pc' = "write_json" /\ UNCHANGED why
    /\ UNCHANGED <<data, r500, interp_np, mainVars>>
    /\ UNCHANGED notPei

\* open(args.outfile, "w").write(pei_data_json+"\n"): open may fail, and so
\* may write once the file is truncated
WriteJson ==
    /\ pc = "write_json"
    /\ \E io \in {"ok", "open fails", "write fails"} :
          CASE io = "ok" -> outfile' = "written" /\ pc' = "save_png" /\ UNCHANGED why
            [] io = "open fails" -> Fail("OSError") /\ UNCHANGED outfile
            [] OTHER -> Fail("OSError") /\ outfile' = "truncated"
    /\ UNCHANGED <<calcVars, args_json, glob_list, info_files, psd_file, info_json, png>>
    /\ UNCHANGED notPei

\* plot_pei(...); fig.savefig(args.png, ...): either may fail
SavePng ==
    /\ pc = "save_png"
    /\ \E io \in {"ok", "open fails", "write fails"} :
          CASE io = "ok" -> png' = "written" /\ pc' = "exit" /\ UNCHANGED why
            [] io = "open fails" -> Fail("OSError") /\ UNCHANGED png
            [] OTHER -> Fail("OSError") /\ png' = "truncated"
    /\ UNCHANGED <<calcVars, args_json, glob_list, info_files, psd_file, info_json, outfile>>
    /\ UNCHANGED notPei

NextMain ==
    \/ ChooseInfoJson
    \/ LoadInfo
    \/ LoadPsd
    \/ MainCalcPei
    \/ WriteJson
    \/ SavePng

SpecMain == InitMain /\ [][NextMain]_vars

\* ------------------------------------------------------------ claims on calc_pei
Returned == pc = "done" /\ calc.status = "returned"

\* every power equal to one positive constant, every frequency positive
FlatInput ==
    /\ Len(data[1]) >= 2
    /\ \A i \in 1..Len(data[1]) : data[1][i].s = 1
    /\ \A i \in 1..Len(data[2]) : data[2][i].s = 1 /\ data[2][i] = data[2][1]

\* [1/(0.35 R500), 1/(0.035 R500)] inside the sampled frequencies
WindowInside ==
    /\ r500.s = 1
    /\ \E i \in 1..Len(data[1]) :
          data[1][i].s = 1 /\ data[1][i].e <= -(E0350 + r500.e)
    /\ \E i \in 1..Len(data[1]) :
          data[1][i].s = 1 /\ data[1][i].e >= -(E0035 + r500.e)

\* C1 as stated: a flat PSD with the window inside the sampled range gives
\* pei_value = 0.5 exactly (here with at least two sampled points).
C1_FlatGivesHalf ==
    (pc = "done" /\ FlatInput /\ WindowInside /\ interp_np >= 2)
        => (calc.status = "returned" /\ calc.pei_value = Fin(1, 2))

\* C1 amended: a flat PSD with the window inside the sampled range makes
\* calc_pei return area_total = 0 and area_below = 0, and pei_value is the
\* quotient 0/0, a nan.
C1_FlatGivesNaN ==
    (pc = "done" /\ FlatInput /\ WindowInside)
        => /\ calc.status = "returned"
           /\ calc.area_total = Zero
           /\ calc.area_below = Zero
           /\ calc.pei_value = NaN

C1_Witness ==
    /\ pc = "done" /\ FlatInput /\ WindowInside
    /\ interp_np >= 3
    /\ calc.pei_value = NaN

\* the interpolated curve calc_pei returned
InterpX == [i \in 1..Len(calc.data_interp_log10) |-> calc.data_interp_log10[i][1]]
InterpY == [i \in 1..Len(calc.data_interp_log10) |-> calc.data_interp_log10[i][2]]
YValues == {InterpY[i] : i \in 1..Len(InterpY)}
\* least and greatest interpolated value, when all of them are comparable
YLeast == CHOOSE v \in YValues : \A w \in YValues : XLe(v, w)
YGreatest == CHOOSE v \in YValues : \A w \in YValues : XLe(w, v)

AreaBounds ==
    /\ XLe(Zero, calc.area_below)
    /\ XLe(calc.area_below, calc.area_total)
    /\ XLe(Zero, calc.pei_value)
    /\ XLe(calc.pei_value, One)

\* C2 as stated: whenever calc_pei returns with area_total > 0, then
\* 0 <= area_below <= area_total and 0 <= pei_value <= 1.
C2_AreaBoundsIfPositive ==
    (Returned /\ XLt(Zero, calc.area_total)) => AreaBounds

\* C2 amended: whenever calc_pei returns with a finite area_total > 0, then
\* 0 <= area_below <= area_total, 0 <= pei_value <= 1, pei_value is
\* area_below / area_total, area_total is the rectangle
\* [x1, x2] x [min y_interp, max y_interp] and area_below the trapezoidal
\* integral of y_interp - min y_interp over the sampled points.
C2_AreaBoundsIfFinite ==
    (Returned /\ IsFin(calc.area_total) /\ XLt(Zero, calc.area_total))
        => /\ AreaBounds
           /\ XEq(XMul(calc.pei_value, calc.area_total), calc.area_below)
           /\ \A i \in 1..Len(InterpY) : IsFin(InterpY[i])
           /\ calc.area_total =
                  XMul(XSub(InterpX[Len(InterpX)], InterpX[1]), XSub(YGreatest, YLeast))
           /\ calc.area_below =
                  trapz([i \in 1..Len(InterpY) |-> XSub(InterpY[i], YLeast)], InterpX)

C2_Witness ==
    /\ Returned /\ IsFin(calc.area_total) /\ XLt(Zero, calc.area_total)
    /\ XLt(Zero, calc.area_below) /\ XLt(calc.area_below, calc.area_total)
    /\ interp_np >= 3

\* C3 as stated: the number of sampled points is odd, interp_np + 1 for an
\* even interp_np (here for a table and an R500 > 0 with the window inside).
C3_OddCount ==
    (Returned /\ WindowInside) => Len(calc.data_interp_log10) =
                    (IF interp_np % 2 = 0 THEN interp_np + 1 ELSE interp_np)

\* C3 amended: the number of points sampled between x1 and x2 is interp_np,
\* odd or even; there is no parity correction.
C3_CountIsInterpNp == Returned => Len(calc.data_interp_log10) = interp_np

C3_Witness ==
    Returned /\ WindowInside /\ interp_np % 2 = 0 /\ Len(calc.data_interp_log10) = interp_np

\* the (frequency, power) rows of the table, and those handed to log10
RECURSIVE Zip(_, _)
Zip(a, b) == IF a = <<>> \/ b = <<>> THEN <<>>
             ELSE <<<<Head(a), Head(b)>>>> \o Zip(Tail(a), Tail(b))
RowPositive(row) == row[1].s = 1

SamplesFiltered ==
    /\ \A i \in 1..Len(calc.log_freqs) : calc.log_freqs[i].s = 1
    /\ Len(calc.log_freqs) = Len(calc.log_psd)
    /\ Zip(calc.log_freqs, calc.log_psd) = SelectSeq(Zip(data[1], data[2]), RowPositive)

\* C6 as stated: every frequency handed to log10 is > 0: the samples <= 0
\* are dropped with their powers, and the two window frequencies are > 0
\* for every r500 calc_pei accepts.
C6_AllLogArgsPositive ==
    Returned => /\ SamplesFiltered
                /\ \A i \in 1..Len(calc.log_window) : calc.log_window[i].s = 1

\* C6 amended: the sample frequencies handed to log10 are > 0, the samples
\* <= 0 being dropped with their paired powers, order and alignment kept;
\* the two window frequencies handed to log10 are > 0 when r500 > 0 and
\* < 0 when r500 < 0, which calc_pei does not reject.
C6_LogArgs ==
    (pc = "done" /\ calc.why # "ZeroDivisionError")
        => /\ SamplesFiltered
           /\ Len(calc.log_window) = 2
           /\ \A i \in 1..2 : calc.log_window[i].s = r500.s

C6_Witness ==
    /\ Returned /\ r500.s = 1
    /\ Len(calc.log_freqs) >= 2 /\ Len(calc.log_freqs) < Len(data[1])
    /\ \E i \in 1..Len(calc.log_psd) : calc.log_psd[i] # calc.log_psd[1]

\* ------------------------------------------------------------ claims on calc_pei.py main
\* an end of the window [log10 fmin, log10 fmax] lies outside the retained
\* log-frequencies, or fewer than one positive frequency is retained
WindowOutside ==
    \/ \A i \in 1..Len(data[1]) : data[1][i].s # 1
    \/ r500.s = 1 /\ ~WindowInside

C10_OverrideAlone ==
    (args_json # "none" /\ pc # "choose_info") => info_json = args_json

\* ------------------------------------------------------------ metadata loader
\* longest metadata text, in characters
MaxText == 5

\* the characters of a metadata text: "a" and "b" stand for two members
\* ("key": value) of the object
Members == {"a", "b"}
Whitespace == {" "}
Chars == {"{", "}", ","} \cup Whitespace \cup Members

\* str.rstrip(): drop the trailing whitespace
RECURSIVE rstrip(_)
rstrip(t) ==
    IF t # <<>> /\ t[Len(t)] \in Whitespace THEN rstrip(SubSeq(t, 1, Len(t) - 1)) ELSE t

\* str.rstrip(","): drop the trailing commas
RECURSIVE rstrip_comma(_)
rstrip_comma_off(t) == t
rstrip_comma(t) ==
    IF t # <<>> /\ t[Len(t)] = "," THEN rstrip_comma(SubSeq(t, 1, Len(t) - 1)) ELSE t

RECURSIVE SkipWs(_, _)
SkipWs(t, i) == IF i <= Len(t) /\ t[i] \in Whitespace THEN SkipWs(t, i + 1) ELSE i

JsonError == [ok |-> FALSE, keys |-> {}]
JsonObject(keys) == [ok |-> TRUE, keys |-> keys]

\* the object is closed at t[i] = "}" and only whitespace follows
ClosesAt(t, i) == i <= Len(t) /\ t[i] = "}" /\ SkipWs(t, i + 1) > Len(t)

\* the members of an object from t[i] on, up to the closing brace
RECURSIVE ParseMembers(_, _, _)
ParseMembers(t, i, keys) ==
    LET j == SkipWs(t, i)
    IN  IF j > Len(t) \/ t[j] \notin Members THEN JsonError
        ELSE LET k == SkipWs(t, j + 1)
             IN  IF k > Len(t) THEN JsonError
                 ELSE IF t[k] = "}"
                 THEN (IF ClosesAt(t, k) THEN JsonObject(keys \cup {t[j]}) ELSE JsonError)
                 ELSE IF t[k] = "," THEN ParseMembers(t, k + 1, keys \cup {t[j]})
                 ELSE JsonError

\* json.loads on an object text: no comma may precede the closing brace,
\* nothing but whitespace may follow it
json_loads(t) ==
    LET i == SkipWs(t, 1)
    IN  IF i > Len(t) \/ t[i] # "{" THEN JsonError
        ELSE LET j == SkipWs(t, i + 1)
             IN  IF j <= Len(t) /\ t[j] = "}"
                 THEN (IF ClosesAt(t, j) THEN JsonObject({}) ELSE JsonError)
                 ELSE ParseMembers(t, i + 1, {})

Texts == UNION {[1..n -> Chars] : n \in 0..MaxText}

InitInfo ==
    /\ pc = "load_info"
    /\ why = ""
    /\ json_text \in Texts
    /\ info = JsonError
    /\ CalcIdle /\ MainIdle /\ XcmIdle /\ CoolIdle

\* json_str = open(info_json).read().rstrip().rstrip(","); info = json.loads(json_str)
LoadJson ==
    /\ pc = "load_info"
    /\ LET json_str == rstrip_comma(rstrip(json_text))
           loaded == json_loads(json_str)
       IN  /\ info' = loaded
           /\ IF loaded.ok THEN pc' = "loaded" /\ UNCHANGED why
              ELSE Fail("JSONDecodeError")
    /\ UNCHANGED <<json_text, calcVars, mainVars, xcmVars, coolVars>>

NextInfo == LoadJson

SpecInfo == InitInfo /\ [][NextInfo]_vars

\* --- claims on the metadata loader
Loaded == pc \in {"loaded", "failed"}

\* position of the last "}" of the text, 0 when there is none
LastBrace(t) ==
    IF \E i \in 1..Len(t) : t[i] = "}"
    THEN CHOOSE i \in 1..Len(t) : t[i] = "}" /\ \A h \in (i + 1)..Len(t) : t[h] # "}"
    ELSE 0

Without(t, i) == SubSeq(t, 1, i - 1) \o SubSeq(t, i + 1, Len(t))

\* the text is a valid object text T with one comma put just before its
\* final closing brace, whitespace allowed after the brace
CommaBeforeBrace(t) ==
    LET b == LastBrace(t)
    IN  /\ b > 1 /\ t[b - 1] = ","
        /\ SkipWs(t, b + 1) > Len(t)
        /\ json_loads(Without(t, b - 1)).ok

\* the text is a valid object text T followed by one comma, whitespace
\* allowed after the comma
CommaAfterObject(t) ==
    LET u == rstrip(t)
    IN  /\ u # <<>> /\ u[Len(u)] = ","
        /\ json_loads(SubSeq(u, 1, Len(u) - 1)).ok

\* C4 as stated: a valid object text with a comma inserted just before the
\* final closing brace is accepted and parses to the same record (here for
\* an object with at least one member).
C4_CommaBeforeBraceTolerated ==
    (Loaded /\ CommaBeforeBrace(json_text)
            /\ json_loads(Without(json_text, LastBrace(json_text) - 1)).keys # {})
        => (pc = "loaded"
            /\ info = json_loads(Without(json_text, LastBrace(json_text) - 1)))

\* C4 amended: a valid object text followed by a comma after its final
\* closing brace (whitespace allowed after the comma) is accepted and parses
\* to the same record: the stripping removes trailing commas at the end of
\* the text, not a comma before the closing brace.
C4_CommaAfterBraceTolerated ==
    (Loaded /\ CommaAfterObject(json_text))
        => (pc = "loaded"
            /\ info = json_loads(SubSeq(rstrip(json_text), 1, Len(rstrip(json_text)) - 1)))

C4_Witness ==
    /\ pc = "loaded" /\ CommaAfterObject(json_text)
    /\ info.keys # {}
    /\ json_text[Len(json_text)] \in Whitespace

\* ------------------------------------------------------------ generated macro script
\* longest temperature profile, in lines
MaxLines == 3
\* largest radius written in a profile line
MaxValue == 2
\* the temperatures written in a profile line
TempVals == {3, 4}

\* a line of the temperature profile: leading whitespace or not, then
\* "#..." (a comment), nothing, a word that is no number, one float, or
\* two floats
ProfileLine(indent, body, r, t) == [indent |-> indent, body |-> body, r |-> r, t |-> t]
ProfileLines ==
    {ProfileLine(i, "#", 0, 0) : i \in BOOLEAN}
        \cup {ProfileLine(FALSE, b, 0, 0) : b \in {"", "word"}}
        \cup {ProfileLine(FALSE, "r", r, 0) : r \in 1..MaxValue}
        \cup {ProfileLine(FALSE, "r t", r, t) : r \in 1..MaxValue, t \in TempVals}

Unset == 0
Header == [radius |-> 0, cf_data |-> 0, text |-> "header"]
Row(radius, cf_data) == [radius |-> radius, cf_data |-> cf_data, text |-> "row"]
StaleRow == [radius |-> 0, cf_data |-> 0, text |-> "left from an earlier run"]

\* regexp -- {^\s*#} $line
IsComment_noindent(line) == line.body = "#" /\ ~line.indent
IsComment(line) == line.body = "#"

\* scan $line "%f %f" radius temp_val: sets the variables it can convert,
\* leaves the others as they were
scan(line, tv) ==
    CASE line.body = "r t" -> [radius |-> line.r, temp_val |-> line.t]
      [] line.body = "r" -> [tv EXCEPT !.radius = line.r]
      [] OTHER -> tv

\* flux ...; tclout flux 1; scan $xspec_tclout ... cf_data: the model flux
\* at the temperature set by newpar, an XSPEC computation
Flux(temp_val) == 10 * temp_val

InitXcm ==
    /\ pc = "open"
    /\ why = ""
    /\ tprofile \in UNION {[1..n -> ProfileLines] : n \in 0..MaxLines}
    /\ cf_file \in {<<>>, <<Header, StaleRow>>}
    /\ tcl_vars = [radius |-> Unset, temp_val |-> Unset]
    /\ line_no = 0
    /\ CalcIdle /\ MainIdle /\ InfoIdle /\ CoolIdle

\* if { [ file exists $cf_fn ] } { exec rm -fv $cf_fn }; open both files;
\* puts $cf_fd "# radius    flux(...)"
ScriptOpen ==
    /\ pc = "open"
    /\ cf_file' = <<Header>>
    /\ pc' = "loop"
    /\ UNCHANGED <<why, tprofile, tcl_vars, line_no, calcVars, mainVars, infoVars, coolVars>>

\* one turn of  while { [ gets $tpro_fd line ] != -1 } { ... }
ScriptLine ==
    /\ pc = "loop"
    /\ line_no < Len(tprofile)
    /\ line_no' = line_no + 1
    /\ LET line == tprofile[line_no + 1]
           tv == scan(line, tcl_vars)
       IN  IF IsComment(line)
           THEN UNCHANGED <<pc, why, tcl_vars, cf_file>>
           ELSE /\ tcl_vars' = tv
                /\ IF tv.temp_val = Unset \/ tv.radius = Unset
                   \* can't read "temp_val": no such variable
                   THEN Fail("TclError") /\ UNCHANGED cf_file
                   ELSE /\ cf_file' = Append(cf_file, Row(tv.radius, Flux(tv.temp_val)))
                        /\ UNCHANGED <<pc, why>>
    /\ UNCHANGED <<tprofile, calcVars, mainVars, infoVars, coolVars>>

\* gets returns -1: close $tpro_fd; close $cf_fd; tclexit
ScriptExit ==
    /\ pc = "loop"
    /\ line_no = Len(tprofile)
    /\ pc' = "exited"
    /\ UNCHANGED <<why, xcmVars, calcVars, mainVars, infoVars, coolVars>>

NextXcm ==
    \/ ScriptOpen
    \/ ScriptLine
    \/ ScriptExit

SpecXcm == InitXcm /\ [][NextXcm]_vars

\* --- claims on the generated macro script
NotComment(line) == line.body # "#"
DataLines == SelectSeq(tprofile, NotComment)
WellFormed == \A i \in 1..Len(DataLines) : DataLines[i].body = "r t"
ScriptEnded == pc \in {"exited", "failed"}

\* C5 as stated: for any profile the output is the header and one row per
\* non-comment line, in order, the k-th row carrying the radius read from
\* the k-th non-comment line; an earlier output file contributes no row
\* (here for the runs that reach tclexit).
C5_RowPerLine ==
    pc = "exited"
        => /\ Len(cf_file) = 1 + Len(DataLines)
           /\ cf_file[1] = Header
           /\ \A k \in 1..Len(DataLines) :
                  /\ cf_file[k + 1].text = "row"
                  /\ DataLines[k].body \in {"r", "r t"}
                  /\ cf_file[k + 1].radius = DataLines[k].r

\* C5 amended: for a profile whose non-comment lines each hold two floats,
\* the script runs to its end and the output is the header and one row per
\* non-comment line, in order, the k-th row carrying the radius of the k-th
\* non-comment line and the flux at its temperature; comment lines give no
\* row and an earlier output file contributes no row.
C5_RowPerDataLine ==
    (ScriptEnded /\ WellFormed)
        => /\ pc = "exited"
           /\ Len(cf_file) = 1 + Len(DataLines)
           /\ cf_file[1] = Header
           /\ \A k \in 1..Len(DataLines) :
                  cf_file[k + 1] = Row(DataLines[k].r, Flux(DataLines[k].t))

C5_Witness ==
    /\ pc = "exited" /\ WellFormed
    /\ Len(DataLines) >= 2 /\ Len(DataLines) < Len(tprofile)
    /\ DataLines[1].r # DataLines[2].r
    /\ \E i \in 1..Len(tprofile) : tprofile[i].body = "#" /\ tprofile[i].indent
    /\ Len(cf_file) = 3

\* ------------------------------------------------------------ calc_coolfunc.py main
NoKey == "<no such key>"
\* the texts float() converts, and the floats they give, in tenths
FloatTexts == {"0.5", "0.50"}
ToFloat(text) == IF text \in {"0.5", "0.50"} THEN 5 ELSE 0
\* "%s" of a float
FloatStr(x) == IF x = 5 THEN "0.5" ELSE IF x = 7 THEN "0.7" ELSE "?"

StringKeys == {"tprofile", "xspec_script", "coolfunc"}
FloatKeys == {"abundance", "redshift", "nh"}
EnergyKeys == {"energy_low", "energy_high"}
Keys == StringKeys \cup FloatKeys \cup EnergyKeys \cup {"abund_table"}

ValuesOf(key) ==
    CASE key \in StringKeys -> {NoKey, key \o ".txt"}
      [] key \in FloatKeys -> {NoKey, "abc", "0.50"}
      [] key \in EnergyKeys -> {NoKey, "abc", "0.5"}
      [] OTHER -> {NoKey, "aspl"}

\* the config files: every key absent or present, the floats convertible or not
Configs ==
    {[tprofile |-> tp, xspec_script |-> xs, coolfunc |-> cf, abundance |-> ab,
      redshift |-> z, nh |-> nh, energy_low |-> el, energy_high |-> eh,
      abund_table |-> at] :
        tp \in ValuesOf("tprofile"), xs \in ValuesOf("xspec_script"),
        cf \in ValuesOf("coolfunc"), ab \in ValuesOf("abundance"),
        z \in ValuesOf("redshift"), nh \in ValuesOf("nh"),
        el \in ValuesOf("energy_low"), eh \in ValuesOf("energy_high"),
        at \in ValuesOf("abund_table")}

\* config[key], config.as_float(key), config.get(key, default): the
\* exception raised, "" when none
Lookup(cfg, key) == IF cfg[key] = NoKey THEN "KeyError" ELSE ""
as_float(cfg, key) ==
    IF cfg[key] = NoKey THEN "KeyError"
    ELSE IF cfg[key] \notin FloatTexts THEN "ValueError" ELSE ""
float_get(cfg, key) ==
    IF cfg[key] # NoKey /\ cfg[key] \notin FloatTexts THEN "ValueError" ELSE ""

\* lines 156-171 in the order Python evaluates them
Steps_nh_unchecked ==
    <<"redshift", "tprofile", "abundance", "energy_low", "energy_high",
      "xspec_script", "coolfunc">>
Steps ==
    <<"redshift", "tprofile", "abundance", "nh", "energy_low", "energy_high",
      "xspec_script", "coolfunc">>

StepError(cfg, key) ==
    CASE key \in FloatKeys -> as_float(cfg, key)
      [] key \in EnergyKeys -> float_get(cfg, key)
      [] OTHER -> Lookup(cfg, key)

\* the first exception raised while the dictionary is built, "" when none
RECURSIVE FirstError(_, _)
FirstError(cfg, steps) ==
    IF steps = <<>> THEN ""
    ELSE IF StepError(cfg, Head(steps)) # "" THEN StepError(cfg, Head(steps))
    ELSE FirstError(cfg, Tail(steps))

FloatField(cfg, key) == IF cfg[key] \in FloatTexts THEN FloatStr(ToFloat(cfg[key])) ELSE cfg[key]

\* config_data, as the template prints it
ConfigData(cfg) ==
    [tprofile |-> cfg["tprofile"],
     abundance |-> FloatField(cfg, "abundance"),
     abund_table |-> IF cfg["abund_table"] = NoKey THEN "grsa" ELSE cfg["abund_table"],
     redshift |-> FloatField(cfg, "redshift"),
     nh |-> FloatField(cfg, "nh"),
     energy_low |-> IF cfg["energy_low"] = NoKey THEN FloatStr(7)
                    ELSE FloatField(cfg, "energy_low"),
     energy_high |-> IF cfg["energy_high"] = NoKey THEN FloatStr(7)
                     ELSE FloatField(cfg, "energy_high"),
     xspec_script |-> cfg["xspec_script"],
     coolfunc |-> cfg["coolfunc"],
     apec_norm |-> "norm(" \o FloatField(cfg, "redshift") \o ")"]

NoData == [built |-> FALSE]
\* the script file as an earlier run left it
OldScript == [path |-> "", text |-> NoData]

\* what subprocess.run does with the process: "raised" or "completed"
subprocess_run_check(outcome) == IF outcome = "exit 0" THEN "completed" ELSE "raised"
subprocess_run(outcome) == IF outcome = "cannot start" THEN "raised" ELSE "completed"

Outcomes == {"cannot start", "exit 0", "exit 1"}

InitCool ==
    /\ pc = "config"
    /\ why = ""
    /\ config \in Configs
    /\ config_data = NoData
    /\ script_file = OldScript
    /\ xspec_calls = <<>>
    /\ returncode = "none"
    /\ CalcIdle /\ MainIdle /\ InfoIdle /\ XcmIdle

\* config = ConfigObj(args.config); redshift = ...; config_data = {...}
ResolveConfig ==
    /\ pc = "config"
    /\ LET exc == FirstError(config, Steps)
       IN  IF exc # "" THEN Fail(exc) /\ UNCHANGED config_data
           ELSE config_data' = ConfigData(config) /\ pc' = "gen_script" /\ UNCHANGED why
    /\ UNCHANGED <<config, script_file, xspec_calls, returncode>>
    /\ UNCHANGED <<calcVars, mainVars, infoVars, xcmVars>>

\* gen_xspec_script(outfile=config["xspec_script"], data=config_data):
\* open(outfile, "w").write(xspec_script): open may fail, and so may write
\* once the file is truncated
GenXspecScript ==
    /\ pc = "gen_script"
    /\ \E io \in {"ok", "open fails", "write fails"} :
          CASE io = "ok" ->
                 /\ script_file' = [path |-> config["xspec_script"], text |-> config_data]
                 /\ pc' = "run_xspec"
                 /\ UNCHANGED why
            [] io = "open fails" -> Fail("OSError") /\ UNCHANGED script_file
            [] OTHER ->
                 /\ Fail("OSError")
                 /\ script_file' = [path |-> config["xspec_script"], text |-> NoData]
    /\ UNCHANGED <<config, config_data, xspec_calls, returncode>>
    /\ UNCHANGED <<calcVars, mainVars, infoVars, xcmVars>>

\* calc_coolfunc(xspec_script=config["xspec_script"]):
\* subprocess.run(args=["xspec", "-", xspec_script], stdout=subprocess.DEVNULL)
CalcCoolfunc ==
    /\ pc = "run_xspec"
    /\ \E outcome \in Outcomes :
          /\ xspec_calls' = Append(xspec_calls, <<"xspec", "-", config["xspec_script"]>>)
          /\ returncode' = outcome
          /\ IF subprocess_run(outcome) = "raised"
             THEN Fail(IF outcome = "cannot start" THEN "FileNotFoundError"
                       ELSE "CalledProcessError")
             ELSE pc' = "exit" /\ UNCHANGED why
    /\ UNCHANGED <<config, config_data, script_file>>
    /\ UNCHANGED <<calcVars, mainVars, infoVars, xcmVars>>

NextCool ==
    \/ ResolveConfig
    \/ GenXspecScript
    \/ CalcCoolfunc

SpecCool == InitCool /\ [][NextCool]_vars

\* --- claims on calc_coolfunc.py main
Launched == Len(xspec_calls) > 0

\* C7: calc_coolfunc fails exactly when the xspec process cannot be
\* started; a process that starts and exits with any status lets main end
\* normally; the process is launched once, with ("xspec", "-", script path),
\* and never again.
C7_FailsOnlyIfNotStarted ==
    /\ Len(xspec_calls) <= 1
    /\ Launched
          => /\ xspec_calls[1] = <<"xspec", "-", config["xspec_script"]>>
             /\ (pc = "failed") = (returncode = "cannot start")
             /\ (pc = "exit") = (returncode \in {"exit 0", "exit 1"})
             /\ pc = "failed" => why = "FileNotFoundError"
    /\ ~Launched => pc # "exit"

C7_Witness == Launched /\ pc = "exit" /\ returncode = "exit 1"

\* a required field is missing or, for a float, not convertible
RequiredBad ==
    \/ \E k \in StringKeys : config[k] = NoKey
    \/ \E k \in FloatKeys : config[k] \notin FloatTexts

\* C8: the stages run in the order config, normalization, script write,
\* launch: the tool is launched only after this run has written the whole
\* script to the configured path, and with a required field missing or not
\* convertible the run fails before the script file is touched and before
\* the tool is launched.
C8_StageOrder ==
    /\ Launched
          => script_file = [path |-> config["xspec_script"], text |-> ConfigData(config)]
    /\ script_file # OldScript => config_data = ConfigData(config)
    /\ (RequiredBad /\ pc # "config")
          => /\ pc = "failed"
             /\ script_file = OldScript
             /\ ~Launched
    /\ pc = "run_xspec" => script_file # OldScript
    /\ pc = "gen_script" => (config_data = ConfigData(config) /\ ~Launched)

C8_Witness ==
    /\ pc = "failed" /\ why = "ValueError"
    /\ config["nh"] = "abc" /\ config["redshift"] = "0.50"
    /\ \A k \in StringKeys : config[k] # NoKey
    /\ script_file = OldScript

====
